---- MODULE Spec2Model ----
(***************************************************************************)
(* etcdmate: one run of the tool on a node (main.go, main) driving the     *)
(* etcd admin client (package etcdclient) against a live cluster.          *)
(*                                                                         *)
(* A run is a sequential program; its position is pc[r].  Every HTTP call  *)
(* is one step, and the answer of the network and of the cluster is drawn  *)
(* from the set of answers the call can receive.  Strings built with       *)
(* fmt.Sprint / fmt.Sprintf / strings.Join are sequences of tokens and     *)
(* concatenation is \o; the empty string is the empty sequence.            *)
(***************************************************************************)
EXTENDS Integers, Sequences, FiniteSets, TLC

\* Longest expected roster (instances the inventory reports in service).
MaxExpected == 2

\* Longest roster recorded by the live cluster when the run starts.
MaxActual == 3

\* Instance ids: the names of members (etcdclient.Member.Name).
InstanceIds == {"i-a", "i-b", "i-c"}

\* Runs of the tool. Spec starts the first; the second stays idle.
Runs == {"r1", "r2"}

\* The private address the inventory reports for an instance.
PrivateIpAddress == ("i-a" :> "10.0.0.1" @@ "i-b" :> "10.0.0.2" @@ "i-c" :> "10.0.0.3")

\* The id the cluster assigns to the member with a given name.
ClusterId == ("i-a" :> "ce2a" @@ "i-b" :> "91bc" @@ "i-c" :> "fd42")

clientSchema == "http"
clientPort == "2379"
peerSchema == "http"
peerPort == "2380"

\* The empty Go string.
EmptyString == <<>>

\* etcdclient.Member built by GetExpectedMembers for one instance: no ID,
\* URLs printed from schema, address and port.
ExpectedMember(n) ==
    [ID |-> "",
     Name |-> n,
     ClientURL |-> <<clientSchema, "://", PrivateIpAddress[n], ":", clientPort>>,
     PeerURL |-> <<peerSchema, "://", PrivateIpAddress[n], ":", peerPort>>]

\* Sequences over S without repetition, of length at most n.
InjectiveSeqs(S, n) ==
    {s \in UNION {[1..k -> S] : k \in 0..n} :
        \A a, b \in DOMAIN s : a # b => s[a] # s[b]}

\* The rosters GetExpectedMembers can return.
ExpectedRosters ==
    {[k \in DOMAIN s |-> ExpectedMember(s[k])] : s \in InjectiveSeqs(InstanceIds, MaxExpected)}

\* How far a member recorded by the cluster has got: "started" has published
\* its URLs, "unstarted" has no client URL yet (what the cluster records when
\* it accepts an addition), "bare" has no URL at all.
MemberShapes == {"started", "unstarted", "bare"}

\* One element of the members array of GET /v2/members (type jsonMember).
JsonMember(n, shape) ==
    [Id |-> ClusterId[n],
     Name |-> n,
     ClientURLs |-> IF shape = "started" THEN <<ExpectedMember(n).ClientURL>> ELSE <<>>,
     PeerURLs |-> IF shape = "bare" THEN <<>> ELSE <<ExpectedMember(n).PeerURL>>]

\* The rosters the live cluster can hold when a run starts: the member that
\* joined last may still be on its way in, the others have started.
ClusterRosters ==
    UNION {{[k \in DOMAIN s |-> JsonMember(s[k], IF k = Len(s) THEN last ELSE "started")] :
               last \in MemberShapes} :
              s \in InjectiveSeqs(InstanceIds, MaxActual)}

\* The names of a roster.
NamesOf(members) == {members[k].Name : k \in DOMAIN members}

VARIABLES
    expectedMembers,  \* main: the expected roster
    insId,            \* insId[r]: metadata.InstanceID of the node of run r
    cluster,          \* the members the live cluster records (as jsonMember)
    pc,               \* pc[r]: where run r is in main
    idx,              \* idx[r]: position of the loop run r is in
    healthyMember,    \* healthyMember[r]: result of FindHealthyMember
    existingMembers,  \* existingMembers[r]: result of ListMembers
    myself,           \* myself[r]: result of GetMyself
    resp,             \* resp[r]: the last HTTP answer run r received
    calls,            \* calls[r]: the HTTP requests run r has issued, in order
    rendered,         \* rendered[r]: the directives WriteDropIn was called to write in
                      \* run r (its initCluster, joined, and its state), in order
    dropIn,           \* dropIn[r]: what run r left in the drop-in file, write by write
    exitStatus        \* exitStatus[r]: "running", "exit0", "fatal" or "panic"

vars == <<expectedMembers, insId, cluster, pc, idx, healthyMember, existingMembers,
          myself, resp, calls, rendered, dropIn, exitStatus>>

\* Member{}: the zero value.
NoMember == [ID |-> "", Name |-> "", ClientURL |-> EmptyString, PeerURL |-> EmptyString]

\* No HTTP answer received yet.
NoResponse == [err |-> FALSE, status |-> 0, health |-> "", valid |-> FALSE, members |-> <<>>]

Init ==
    /\ expectedMembers \in ExpectedRosters
    /\ \E n \in InstanceIds : insId = [r \in Runs |-> n]
    /\ cluster \in ClusterRosters
    /\ pc = [r \in Runs |-> IF r = "r1" THEN "FindHealthyMember" ELSE "idle"]
    /\ idx = [r \in Runs |-> 1]
    /\ healthyMember = [r \in Runs |-> NoMember]
    /\ existingMembers = [r \in Runs |-> <<>>]
    /\ myself = [r \in Runs |-> NoMember]
    /\ resp = [r \in Runs |-> NoResponse]
    /\ calls = [r \in Runs |-> <<>>]
    /\ rendered = [r \in Runs |-> <<>>]
    /\ dropIn = [r \in Runs |-> <<>>]
    /\ exitStatus = [r \in Runs |-> "running"]

(***************************************************************************)
(* HTTP: requests and answers                                              *)
(***************************************************************************)

\* An HTTP request as the client sends it, with what came back. name and
\* peerURLs are the fields of the JSON body of a POST (empty otherwise); err is
\* a transport error (no status), status the HTTP status, health the value of
\* the body's health key, valid whether the body decoded.
Request(method, url, name, peerURLs, answer) ==
    [method |-> method, url |-> url, name |-> name, peerURLs |-> peerURLs,
     err |-> answer.err, status |-> answer.status,
     health |-> answer.health, valid |-> answer.valid]

\* A transport failure or timeout: httpClient returns err != nil.
TransportError == [err |-> TRUE, status |-> 0, health |-> "", valid |-> FALSE, members |-> <<>>]

\* Answers to GET {clientURL}/health. health is jresp["health"] after the
\* body was decoded: "" when the key is missing or the body is not JSON. One
\* answer asserts health under an error status.
HealthResponses ==
    {TransportError} \cup
    {[err |-> FALSE, status |-> a[1], health |-> a[2], valid |-> a[2] # "", members |-> <<>>] :
        a \in {<<200, "true">>, <<200, "">>, <<503, "true">>}}

\* Answers to GET {clientURL}/v2/members: the cluster's roster, or a body
\* that does not decode into map[string][]jsonMember.
ListResponses ==
    {TransportError,
     [err |-> FALSE, status |-> 200, health |-> "", valid |-> TRUE, members |-> cluster],
     [err |-> FALSE, status |-> 200, health |-> "", valid |-> FALSE, members |-> <<>>]}

\* Answers to POST /v2/members and DELETE /v2/members/{id}: accepted (2xx)
\* or rejected by the cluster (409 conflict).
EditResponses ==
    {TransportError} \cup
    {[err |-> FALSE, status |-> s, health |-> "", valid |-> FALSE, members |-> <<>>] :
        s \in {200, 409}}

\* A 2xx status.
Is2xx(status) == status >= 200 /\ status < 300

\* The cluster's roster after it accepted DELETE /v2/members/{id}.
ClusterWithout(id) == SelectSeq(cluster, LAMBDA m : m.Id # id)

\* The cluster's roster after it accepted POST /v2/members: the new member is
\* recorded with its peer URL and has no client URL until it starts.
ClusterWith(name, peerURLs) ==
    IF name \in NamesOf(cluster) THEN cluster
    ELSE Append(cluster, [Id |-> ClusterId[name], Name |-> name,
                          ClientURLs |-> <<>>, PeerURLs |-> peerURLs])

(***************************************************************************)
(* package etcdclient                                                      *)
(***************************************************************************)

\* A verdict that takes any answer at all for a healthy one.
HealthyAnyAnswer(answer) == ~answer.err

\* FindHealthyMember's verdict on one answer: no transport error and
\* jresp["health"] == "true". The status is not looked at.
Healthy(answer) == ~answer.err /\ answer.health = "true"

\* url of FindHealthyMember: fmt.Sprintf("%s/health", member.ClientURL)
HealthURL(member) == member.ClientURL \o <<"/health">>

\* The members resource of the first expected member, whoever was healthy.
MembersURLOfFirst(hm) == expectedMembers[1].ClientURL \o <<"/v2/members">>

\* url of ListMembers and AddMember: fmt.Sprintf("%s/v2/members", hm.ClientURL)
MembersURL(hm) == hm.ClientURL \o <<"/v2/members">>

\* A removal addressed by the member's name instead of its id.
RemoveURLByName(hm, rm) == hm.ClientURL \o <<"/v2/members/", rm.Name>>

\* url of RemoveMember: fmt.Sprintf("%s/v2/members/%s", hm.ClientURL, rm.ID)
RemoveURL(hm, rm) == hm.ClientURL \o <<"/v2/members/", rm.ID>>

\* The first URL of a list, or the empty string: the len(...) > 0 guards of
\* the later copy of ListMembers (README.md lines 299-304).
FirstURL(urls) == IF Len(urls) > 0 THEN urls[1] ELSE EmptyString

\* ListMembers' loop over jresp["members"], in the later of the two copies of
\* package etcdclient (README.md lines 294-306; the earlier copy is
\* ListMembersUnguarded below): one Member per element.
DecodeMembers(members) ==
    [k \in DOMAIN members |->
        [ID |-> members[k].Id,
         Name |-> members[k].Name,
         ClientURL |-> FirstURL(members[k].ClientURLs),
         PeerURL |-> FirstURL(members[k].PeerURLs)]]

\* A listing that reports no error even when the request did not get through.
ListErrorIgnored(answer) == FALSE

\* ListMembers' result: an error only when the transport failed.
ListError(answer) == answer.err

\* A client that never reports an error.
EditErrorIgnored(answer) == FALSE

\* RemoveMember's and AddMember's result: an error only when the transport
\* failed.
EditError(answer) == answer.err


(***************************************************************************)
(* main.go                                                                 *)
(***************************************************************************)

\* strings.Join(elems, sep)
RECURSIVE Join(_, _)
Join(elems, sep) ==
    IF Len(elems) = 0 THEN EmptyString
    ELSE IF Len(elems) = 1 THEN elems[1]
    ELSE elems[1] \o sep \o Join(Tail(elems), sep)

\* A drop-in that lists the members' client URLs.
WriteDropInClientURL(members, state) ==
    [ETCD_INITIAL_CLUSTER |->
        Join([k \in DOMAIN members |-> <<members[k].Name, "=">> \o members[k].ClientURL], <<",">>),
     ETCD_INITIAL_CLUSTER_STATE |-> state]

\* WriteDropIn, lines 320-327 and 338-346: the values of the two Environment
\* lines the file is to hold.
WriteDropIn(members, state) ==
    [ETCD_INITIAL_CLUSTER |->
        Join([k \in DOMAIN members |-> <<members[k].Name, "=">> \o members[k].PeerURL], <<",">>),
     ETCD_INITIAL_CLUSTER_STATE |-> state]

\* The file with nothing of the directive in it.
EmptyFile == [ETCD_INITIAL_CLUSTER |-> EmptyString, ETCD_INITIAL_CLUSTER_STATE |-> ""]

\* The beginnings of a string held as pieces, cut after any character: some
\* of the pieces whole, or those and a part of the piece that follows.
Beginnings(str) ==
    {SubSeq(str, 1, k) : k \in 0..Len(str)}
    \cup UNION {{SubSeq(str, 1, k - 1) \o <<SubSeq(str[k], 1, j)>> : j \in 1..(Len(str[k]) - 1)}
                   : k \in 1..Len(str)}

\* What fmt.Fprintf can leave in the file os.Create has just truncated: the
\* whole text, or, when the write fails (its error is not looked at), the
\* text up to any byte. A file that ends before the peer list holds neither
\* value; one that ends within the peer list holds a part of it and no state;
\* one that ends between the two values holds the peer list and no state; one
\* that ends within the state holds the peer list and a part of the state.
FileContents(text) ==
    {[ETCD_INITIAL_CLUSTER |-> b, ETCD_INITIAL_CLUSTER_STATE |-> ""]
         : b \in Beginnings(text.ETCD_INITIAL_CLUSTER)}
    \cup {[ETCD_INITIAL_CLUSTER |-> text.ETCD_INITIAL_CLUSTER,
            ETCD_INITIAL_CLUSTER_STATE |-> SubSeq(text.ETCD_INITIAL_CLUSTER_STATE, 1, j)]
             : j \in 0..Len(text.ETCD_INITIAL_CLUSTER_STATE)}

\* A comparison of the members' ids instead of their names.
ExpectedById(exiM) ==
    \E k \in DOMAIN expectedMembers : exiM.ID = expectedMembers[k].ID

\* Expected in RemoveStaleMembers: some expected member has this name.
Expected(exiM) ==
    \E k \in DOMAIN expectedMembers : exiM.Name = expectedMembers[k].Name

\* A comparison of the members' ids instead of their names.
ExistsById(members, me) == \E k \in DOMAIN members : members[k].ID = me.ID

\* exists in MaybeAddMyself: some existing member has myself's name.
Exists(members, me) == \E k \in DOMAIN members : members[k].Name = me.Name

\* WriteDropIn, lines 328-346, called in run r with the directive text: when
\* os.MkdirAll or os.Create fails, log.Fatal ends the run with status 1 and
\* nothing is written; otherwise the file holds what fmt.Fprintf wrote and
\* WriteDropIn returns, after which main exits 0.
WriteFile(r, text) ==
    /\ rendered' = [rendered EXCEPT ![r] = Append(@, text)]
    /\ \/ /\ dropIn' = dropIn
          /\ exitStatus' = [exitStatus EXCEPT ![r] = "fatal"]
       \/ \E content \in FileContents(text) :
             /\ dropIn' = [dropIn EXCEPT ![r] = Append(@, content)]
             /\ exitStatus' = [exitStatus EXCEPT ![r] = "exit0"]

\* A probe that goes through all the candidates and keeps the last healthy one.
FindLastHealthyMember(r) ==
    /\ pc[r] = "FindHealthyMember"
    /\ idx[r] <= Len(expectedMembers)
    /\ LET member == expectedMembers[idx[r]] IN
       \E answer \in HealthResponses :
          /\ resp' = [resp EXCEPT ![r] = answer]
          /\ calls' = [calls EXCEPT ![r] =
                Append(@, Request("GET", HealthURL(member), "", <<>>, answer))]
          /\ healthyMember' = IF Healthy(answer)
                              THEN [healthyMember EXCEPT ![r] = member] ELSE healthyMember
          /\ IF idx[r] = Len(expectedMembers) /\ healthyMember'[r].Name # ""
             THEN pc' = [pc EXCEPT ![r] = "ListMembers"] /\ idx' = idx
             ELSE idx' = [idx EXCEPT ![r] = @ + 1] /\ pc' = pc
    /\ UNCHANGED <<expectedMembers, insId, cluster, existingMembers, myself, rendered, dropIn, exitStatus>>

\* main, lines 128-134, one pass of FindHealthyMember's loop: probe the next
\* candidate; the first healthy one is returned.
FindHealthyMember(r) ==
    /\ pc[r] = "FindHealthyMember"
    /\ idx[r] <= Len(expectedMembers)
    /\ LET member == expectedMembers[idx[r]] IN
       \E answer \in HealthResponses :
          /\ resp' = [resp EXCEPT ![r] = answer]
          /\ calls' = [calls EXCEPT ![r] =
                Append(@, Request("GET", HealthURL(member), "", <<>>, answer))]
          /\ IF Healthy(answer)
             THEN /\ healthyMember' = [healthyMember EXCEPT ![r] = member]
                  /\ pc' = [pc EXCEPT ![r] = "ListMembers"]
                  /\ idx' = idx
             ELSE /\ idx' = [idx EXCEPT ![r] = @ + 1]
                  /\ UNCHANGED <<healthyMember, pc>>
    /\ UNCHANGED <<expectedMembers, insId, cluster, existingMembers, myself, rendered, dropIn, exitStatus>>

\* A probing that starts over when it found no candidate healthy.
NoHealthyMemberRetry(r) ==
    /\ pc[r] = "FindHealthyMember"
    /\ idx[r] > Len(expectedMembers)
    /\ idx' = [idx EXCEPT ![r] = 1]
    /\ UNCHANGED <<expectedMembers, insId, cluster, pc, healthyMember, existingMembers,
                   myself, resp, calls, rendered, dropIn, exitStatus>>

\* main, lines 129-134: FindHealthyMember ran out of candidates and returned
\* an error; write the drop-in for a new cluster and exit 0 (or end in
\* WriteDropIn's log.Fatal).
NoHealthyMember(r) ==
    /\ pc[r] = "FindHealthyMember"
    /\ idx[r] > Len(expectedMembers)
    /\ WriteFile(r, WriteDropIn(expectedMembers, "new"))
    /\ pc' = [pc EXCEPT ![r] = "done"]
    /\ UNCHANGED <<expectedMembers, insId, cluster, idx, healthyMember, existingMembers,
                   myself, resp, calls>>

\* main, lines 135-140: ListMembers on the healthy member; on error write the
\* drop-in for a new cluster and exit 0 (or end in WriteDropIn's log.Fatal).
ListMembers(r) ==
    /\ pc[r] = "ListMembers"
    /\ \E answer \in ListResponses :
          /\ resp' = [resp EXCEPT ![r] = answer]
          /\ calls' = [calls EXCEPT ![r] =
                Append(@, Request("GET", MembersURL(healthyMember[r]), "", <<>>, answer))]
          /\ IF ListError(answer)
             THEN /\ WriteFile(r, WriteDropIn(expectedMembers, "new"))
                  /\ pc' = [pc EXCEPT ![r] = "done"]
                  /\ UNCHANGED <<existingMembers, idx>>
             ELSE /\ existingMembers' = [existingMembers EXCEPT ![r] = DecodeMembers(answer.members)]
                  /\ pc' = [pc EXCEPT ![r] = "RemoveStaleMembers"]
                  /\ idx' = [idx EXCEPT ![r] = 1]
                  /\ UNCHANGED <<rendered, dropIn, exitStatus>>
    /\ UNCHANGED <<expectedMembers, insId, cluster, healthyMember, myself>>

\* main, lines 141-146, one pass of RemoveStaleMembers' loop: a member that
\* is not expected is removed; an error is fatal (log.Fatal).
RemoveStaleMembers(r) ==
    /\ pc[r] = "RemoveStaleMembers"
    /\ idx[r] <= Len(existingMembers[r])
    /\ LET exiM == existingMembers[r][idx[r]] IN
       IF Expected(exiM)
       THEN /\ idx' = [idx EXCEPT ![r] = @ + 1]
            /\ UNCHANGED <<resp, calls, cluster, exitStatus, pc>>
       ELSE \E answer \in EditResponses :
               /\ resp' = [resp EXCEPT ![r] = answer]
               /\ calls' = [calls EXCEPT ![r] =
                     Append(@, Request("DELETE", RemoveURL(healthyMember[r], exiM), "", <<>>, answer))]
               /\ cluster' = IF ~answer.err /\ Is2xx(answer.status)
                             THEN ClusterWithout(exiM.ID) ELSE cluster
               /\ IF EditError(answer)
                  THEN /\ exitStatus' = [exitStatus EXCEPT ![r] = "fatal"]
                       /\ pc' = [pc EXCEPT ![r] = "done"]
                       /\ idx' = idx
                  ELSE /\ idx' = [idx EXCEPT ![r] = @ + 1]
                       /\ UNCHANGED <<exitStatus, pc>>
    /\ UNCHANGED <<expectedMembers, insId, healthyMember, existingMembers, myself, rendered, dropIn>>

\* main, line 147: RemoveStaleMembers has returned; GetMyself finds the node
\* in the expected roster or panics.
GetMyself(r) ==
    /\ pc[r] = "RemoveStaleMembers"
    /\ idx[r] > Len(existingMembers[r])
    /\ IF \E k \in DOMAIN expectedMembers : expectedMembers[k].Name = insId[r]
       THEN /\ myself' = [myself EXCEPT ![r] =
                  expectedMembers[CHOOSE k \in DOMAIN expectedMembers :
                      /\ expectedMembers[k].Name = insId[r]
                      /\ \A j \in 1..(k - 1) : expectedMembers[j].Name # insId[r]]]
            /\ pc' = [pc EXCEPT ![r] = "MaybeAddMyself"]
            /\ UNCHANGED exitStatus
       ELSE /\ exitStatus' = [exitStatus EXCEPT ![r] = "panic"]
            /\ pc' = [pc EXCEPT ![r] = "done"]
            /\ UNCHANGED myself
    /\ UNCHANGED <<expectedMembers, insId, cluster, idx, healthyMember, existingMembers,
                   resp, calls, rendered, dropIn>>

\* main, lines 148-153: MaybeAddMyself adds the node when no existing member
\* has its name; an error is fatal (log.Fatal).
MaybeAddMyself(r) ==
    /\ pc[r] = "MaybeAddMyself"
    /\ IF Exists(existingMembers[r], myself[r])
       THEN /\ pc' = [pc EXCEPT ![r] = "WriteDropIn"]
            /\ UNCHANGED <<resp, calls, cluster, exitStatus>>
       ELSE \E answer \in EditResponses :
               /\ resp' = [resp EXCEPT ![r] = answer]
               /\ calls' = [calls EXCEPT ![r] =
                     Append(@, Request("POST", MembersURL(healthyMember[r]),
                                       myself[r].Name, <<myself[r].PeerURL>>, answer))]
               /\ cluster' = IF ~answer.err /\ Is2xx(answer.status)
                             THEN ClusterWith(myself[r].Name, <<myself[r].PeerURL>>) ELSE cluster
               /\ IF EditError(answer)
                  THEN /\ exitStatus' = [exitStatus EXCEPT ![r] = "fatal"]
                       /\ pc' = [pc EXCEPT ![r] = "done"]
                  ELSE /\ pc' = [pc EXCEPT ![r] = "WriteDropIn"]
                       /\ UNCHANGED exitStatus
    /\ UNCHANGED <<expectedMembers, insId, idx, healthyMember, existingMembers, myself, rendered, dropIn>>

\* A drop-in written from the members the cluster listed.
WriteDropInListed(r) ==
    /\ pc[r] = "WriteDropIn"
    /\ WriteFile(r, WriteDropIn(existingMembers[r], "existing"))
    /\ pc' = [pc EXCEPT ![r] = "done"]
    /\ UNCHANGED <<expectedMembers, insId, cluster, idx, healthyMember, existingMembers,
                   myself, resp, calls>>

\* main, line 154: write the drop-in for an existing cluster and return (or
\* end in WriteDropIn's log.Fatal).
WriteDropInExisting(r) ==
    /\ pc[r] = "WriteDropIn"
    /\ WriteFile(r, WriteDropIn(expectedMembers, "existing"))
    /\ pc' = [pc EXCEPT ![r] = "done"]
    /\ UNCHANGED <<expectedMembers, insId, cluster, idx, healthyMember, existingMembers,
                   myself, resp, calls>>

\* jm.clientURLs[0] in the earlier copy of ListMembers (README.md line 155):
\* jsonMember's fields are unexported there (lines 171-176), so Decode fills
\* none of them; every element of the members array has a nil clientURLs, and
\* the index is out of range for the first one.
IndexOutOfRange(members) == members # <<>>

\* main, lines 135-140, with the earlier of the two copies of ListMembers
\* (README.md lines 140-161): as ListMembers, except that a members array
\* with an element in it makes the run panic inside the loop; an empty
\* array, or a body that does not decode, gives the empty roster.
ListMembersUnguarded(r) ==
    /\ pc[r] = "ListMembers"
    /\ \E answer \in ListResponses :
          /\ resp' = [resp EXCEPT ![r] = answer]
          /\ calls' = [calls EXCEPT ![r] =
                Append(@, Request("GET", MembersURL(healthyMember[r]), "", <<>>, answer))]
          /\ IF ListError(answer)
             THEN /\ WriteFile(r, WriteDropIn(expectedMembers, "new"))
                  /\ pc' = [pc EXCEPT ![r] = "done"]
                  /\ UNCHANGED <<existingMembers, idx>>
             ELSE IF IndexOutOfRange(answer.members)
             THEN /\ exitStatus' = [exitStatus EXCEPT ![r] = "panic"]
                  /\ pc' = [pc EXCEPT ![r] = "done"]
                  /\ UNCHANGED <<existingMembers, idx, rendered, dropIn>>
             ELSE /\ existingMembers' = [existingMembers EXCEPT ![r] = <<>>]
                  /\ pc' = [pc EXCEPT ![r] = "RemoveStaleMembers"]
                  /\ idx' = [idx EXCEPT ![r] = 1]
                  /\ UNCHANGED <<rendered, dropIn, exitStatus>>
    /\ UNCHANGED <<expectedMembers, insId, cluster, healthyMember, myself>>

Next ==
    \E r \in Runs :
        \/ FindHealthyMember(r)
        \/ NoHealthyMember(r)
        \/ ListMembers(r)
        \/ RemoveStaleMembers(r)
        \/ GetMyself(r)
        \/ MaybeAddMyself(r)
        \/ WriteDropInExisting(r)

Spec == Init /\ [][Next]_vars

\* The source holds package etcdclient twice, and the two copies differ in
\* ListMembers; a build has one or the other. Spec is the program with the
\* later copy; here a listing is made by either.
NextEitherCopy == Next \/ \E r \in Runs : ListMembersUnguarded(r)

SpecEitherCopy == Init /\ [][NextEitherCopy]_vars

(***************************************************************************)
(* Re-run: the tool is invoked again on the same node                      *)
(***************************************************************************)

\* The cluster answered the request with a 2xx status.
Applied(c) == ~c.err /\ c.status >= 200 /\ c.status < 300

\* main starts again on the node of run r, with the same expected roster and
\* identity, after a run that ended in mode existing and whose removals and
\* additions the cluster all applied. The new process starts from main's
\* first line; what the earlier run left behind is the drop-in it wrote and
\* the cluster.
Rerun(r) ==
    /\ pc[r] = "done"
    /\ exitStatus[r] = "exit0"
    /\ Len(rendered[r]) = 1
    /\ rendered[r][1].ETCD_INITIAL_CLUSTER_STATE = "existing"
    /\ dropIn[r] = rendered[r]
    /\ \A k \in DOMAIN calls[r] :
          calls[r][k].method \in {"DELETE", "POST"} => Applied(calls[r][k])
    /\ pc' = [pc EXCEPT ![r] = "FindHealthyMember"]
    /\ idx' = [idx EXCEPT ![r] = 1]
    /\ healthyMember' = [healthyMember EXCEPT ![r] = NoMember]
    /\ existingMembers' = [existingMembers EXCEPT ![r] = <<>>]
    /\ myself' = [myself EXCEPT ![r] = NoMember]
    /\ resp' = [resp EXCEPT ![r] = NoResponse]
    /\ calls' = [calls EXCEPT ![r] = <<>>]
    /\ exitStatus' = [exitStatus EXCEPT ![r] = "running"]
    /\ UNCHANGED <<expectedMembers, insId, cluster, rendered, dropIn>>

NextRerun ==
    \/ Next
    \/ \E r \in Runs : Rerun(r)

SpecRerun == Init /\ [][NextRerun]_vars

(***************************************************************************)
(* Two nodes of one expected roster run the tool at the same time          *)
(***************************************************************************)

\* The most members the live cluster records when the two runs start.
MaxLive == 2

\* Both runs are at the start of main, each on its own node; both nodes are
\* members of the one expected roster, and both runs talk to the one cluster.
\* The expected roster is the two nodes (instance ids are interchangeable, and
\* so are the runs: r1 is on the node the roster names first). The cluster is
\* live: it records at least one member that has started, any of the three
\* instances, so it may hold either node, both, or a stale member.
InitConcurrent ==
    /\ expectedMembers = <<ExpectedMember("i-a"), ExpectedMember("i-b")>>
    /\ insId = [r \in Runs |-> IF r = "r1" THEN expectedMembers[1].Name
                                             ELSE expectedMembers[2].Name]
    /\ cluster \in {c \in ClusterRosters :
                       Len(c) <= MaxLive /\ \E k \in DOMAIN c : c[k].ClientURLs # <<>>}
    /\ pc = [r \in Runs |-> "FindHealthyMember"]
    /\ idx = [r \in Runs |-> 1]
    /\ healthyMember = [r \in Runs |-> NoMember]
    /\ existingMembers = [r \in Runs |-> <<>>]
    /\ myself = [r \in Runs |-> NoMember]
    /\ resp = [r \in Runs |-> NoResponse]
    /\ calls = [r \in Runs |-> <<>>]
    /\ rendered = [r \in Runs |-> <<>>]
    /\ dropIn = [r \in Runs |-> <<>>]
    /\ exitStatus = [r \in Runs |-> "running"]

\* The answers of a cluster that is up while the two runs meet: a request
\* either does not get through, or is answered 200 (a probe with a payload
\* asserting health, a listing with the roster), or, for a removal or an
\* addition, is rejected with 409.
UpAnswer(c) ==
    \/ c.err
    \/ c.method = "GET" /\ c.status = 200 /\ c.valid /\ c.health \in {"true", ""}
    \/ c.method \in {"DELETE", "POST"} /\ c.status \in {200, 409}

\* A step of either run, each call atomic, answered by the cluster that is up.
NextConcurrent ==
    Next /\ \A r \in Runs : \A k \in DOMAIN calls'[r] : UpAnswer(calls'[r][k])

SpecConcurrent == InitConcurrent /\ [][NextConcurrent]_vars

(***************************************************************************)
(* Properties                                                              *)
(***************************************************************************)

\* The last token of a request's url.
LastToken(c) == c.url[Len(c.url)]

IsProbe(c) == c.method = "GET" /\ LastToken(c) = "/health"
IsList(c) == c.method = "GET" /\ LastToken(c) = "/v2/members"
IsRemove(c) == c.method = "DELETE"
IsAdd(c) == c.method = "POST"

\* The removeMember and addMember calls of a run, in the order issued.
Removes(r) == SelectSeq(calls[r], IsRemove)
Adds(r) == SelectSeq(calls[r], IsAdd)

\* The ids the removeMember calls of a run carry, in the order issued.
RemovedIds(r) == [k \in DOMAIN Removes(r) |-> LastToken(Removes(r)[k])]

\* The members of a listing whose name is absent from the expected roster.
StaleMembers(members) ==
    SelectSeq(members, LAMBDA m : m.Name \notin NamesOf(expectedMembers))

\* The expected member with a given name.
ExpectedNamed(n) ==
    CHOOSE m \in {expectedMembers[k] : k \in DOMAIN expectedMembers} : m.Name = n

\* name=peerURL of every member of a roster, in its order, comma-separated.
RECURSIVE PeerList(_)
PeerList(members) ==
    IF members = <<>> THEN <<>>
    ELSE <<members[1].Name, "=">> \o members[1].PeerURL
         \o (IF Len(members) > 1 THEN <<",">> \o PeerList(Tail(members)) ELSE <<>>)

\* The directive of a given mode for the expected roster.
Directive(mode) ==
    [ETCD_INITIAL_CLUSTER |-> PeerList(expectedMembers), ETCD_INITIAL_CLUSTER_STATE |-> mode]

\* The listMembers call of the run returned a roster to main.
ListReturned(r) == \E k \in DOMAIN calls[r] : IsList(calls[r][k]) /\ ~calls[r][k].err

\* The run is past RemoveStaleMembers and no removal failed.
PruneCompleted(r) ==
    /\ ListReturned(r)
    /\ \A k \in DOMAIN calls[r] : IsRemove(calls[r][k]) => ~calls[r][k].err
    /\ ~(pc[r] = "RemoveStaleMembers" /\ idx[r] <= Len(existingMembers[r]))

\* The run has been through MaybeAddMyself.
PastMaybeAddMyself(r) == myself[r].Name # "" /\ pc[r] # "MaybeAddMyself"

\* The file content is the text as far as a write that stopped early got: a
\* part of the peer list and no state, or the peer list and a part of the
\* state.
CutShort(content, text) ==
    LET list == text.ETCD_INITIAL_CLUSTER
        part == content.ETCD_INITIAL_CLUSTER
        state == text.ETCD_INITIAL_CLUSTER_STATE IN
    \/ /\ content.ETCD_INITIAL_CLUSTER_STATE = ""
       /\ Len(part) <= Len(list)
       /\ \A i \in DOMAIN part :
             \/ part[i] = list[i]
             \/ /\ i = Len(part)
                /\ \E j \in 1..Len(list[i]) : part[i] = SubSeq(list[i], 1, j)
    \/ /\ part = list
       /\ \E j \in 0..(Len(state) - 1) :
             content.ETCD_INITIAL_CLUSTER_STATE = SubSeq(state, 1, j)

\* Run r is over and ended the way the specification gives for the mode: the
\* directive of that mode, in full, is what it wrote, once, and it exited 0.
EndedIn(r, mode) ==
    /\ pc[r] = "done"
    /\ exitStatus[r] = "exit0"
    /\ rendered[r] = <<Directive(mode)>>
    /\ dropIn[r] = <<Directive(mode)>>

\* Run r is over after WriteDropIn was called, once, with the directive of
\* the mode, and either the file could not be created (the run ended in
\* log.Fatal and wrote nothing) or the run exited 0 and the file holds the
\* directive or, a write having failed, a beginning of it.
EndedInOrWriteFailed(r, mode) ==
    /\ pc[r] = "done"
    /\ rendered[r] = <<Directive(mode)>>
    /\ \/ exitStatus[r] = "fatal" /\ dropIn[r] = <<>>
       \/ /\ exitStatus[r] = "exit0"
          /\ Len(dropIn[r]) = 1
          /\ \/ dropIn[r][1] = Directive(mode)
             \/ CutShort(dropIn[r][1], Directive(mode))

\* The reconciliation of run r was aborted: a log.Fatal or the panic before
\* WriteDropIn was ever called.
Aborted(r) == exitStatus[r] \in {"fatal", "panic"} /\ rendered[r] = <<>>

\* The reconciliation of run r was aborted by a log.Fatal of main.
AbortedByFatal(r) == exitStatus[r] = "fatal" /\ rendered[r] = <<>>

\* C1: when the local node's name is not in the expected roster the run
\* issues no removeMember and no addMember, writes no directive, and ends in
\* the configuration error (the panic of GetMyself).
C1_MissingSelfFatal ==
    \A r \in Runs :
        insId[r] \notin NamesOf(expectedMembers) =>
            /\ Removes(r) = <<>>
            /\ Adds(r) = <<>>
            /\ rendered[r] = <<>> /\ dropIn[r] = <<>>
            /\ pc[r] = "done" => exitStatus[r] = "panic"

\* The edits alone: with the local node missing from the expected roster,
\* no member is removed or added before the configuration error.
C1_NoEditBeforeConfigError ==
    \A r \in Runs :
        insId[r] \notin NamesOf(expectedMembers) => Removes(r) = <<>> /\ Adds(r) = <<>>

\* C2: no removeMember is ever issued for a member whose name is in the
\* expected roster: neither for a listed member with such a name nor with the
\* id the cluster gave to an expected member.
C2_PruneSafety ==
    \A r \in Runs : \A k \in DOMAIN calls[r] :
        IsRemove(calls[r][k]) =>
            /\ \A j \in DOMAIN existingMembers[r] :
                  existingMembers[r][j].ID = LastToken(calls[r][k])
                      => existingMembers[r][j].Name \notin NamesOf(expectedMembers)
            /\ \A n \in NamesOf(expectedMembers) : LastToken(calls[r][k]) # ClusterId[n]

\* C2 witness: a removal was issued although the listing also holds an
\* expected member, the local node among the expected.
C2_Witness ==
    \E r \in Runs :
        /\ Removes(r) # <<>>
        /\ NamesOf(existingMembers[r]) \cap NamesOf(expectedMembers) # {}
        /\ insId[r] \in NamesOf(existingMembers[r]) \cap NamesOf(expectedMembers)

\* C3: once pruning is over without a failed removal, the removeMember calls
\* are exactly the stale members of the listing, one call each, in the
\* listing's order, each carrying the id the listing gave.
C3_StalePruning ==
    \A r \in Runs :
        PruneCompleted(r) =>
            RemovedIds(r) = [k \in DOMAIN StaleMembers(existingMembers[r]) |->
                                StaleMembers(existingMembers[r])[k].ID]

\* C3 witness: pruning completed with two removals and an expected member
\* standing between the two stale ones in the listing.
C3_Witness ==
    \E r \in Runs :
        /\ PruneCompleted(r)
        /\ Len(Removes(r)) = 2
        /\ Len(existingMembers[r]) = 3
        /\ existingMembers[r][2].Name \in NamesOf(expectedMembers)

\* C4: addMember is only ever issued for the local node, with its name and
\* its peerURL of the expected roster, and at most once; a run that has been
\* through MaybeAddMyself has issued it exactly when the local node's name is
\* absent from the listing.
C4_SelfAdmission ==
    \A r \in Runs :
        /\ Len(Adds(r)) <= 1
        /\ \A k \in DOMAIN Adds(r) :
              /\ Adds(r)[k].name = insId[r]
              /\ insId[r] \in NamesOf(expectedMembers)
              /\ Adds(r)[k].peerURLs = <<ExpectedNamed(insId[r]).PeerURL>>
        /\ PastMaybeAddMyself(r) =>
              (Len(Adds(r)) = 1 <=> insId[r] \notin NamesOf(existingMembers[r]))

\* C4 witness: the run of the spec's example: the listing holds another
\* expected member but not the local node, and one addMember was issued.
C4_Witness ==
    \E r \in Runs :
        /\ PastMaybeAddMyself(r)
        /\ Len(Adds(r)) = 1
        /\ existingMembers[r] # <<>>
        /\ NamesOf(existingMembers[r]) \subseteq NamesOf(expectedMembers)

\* C5 as stated: when the listing has exactly the names of the expected
\* roster and the local node is one of them, the run issues no addMember and
\* no removeMember and ends in mode existing: exit 0 with the directive of
\* mode existing, the expected roster's name=peerURL pairs in its order.
C5_Idempotence ==
    \A r \in Runs :
        (/\ ListReturned(r)
         /\ NamesOf(existingMembers[r]) = NamesOf(expectedMembers)
         /\ insId[r] \in NamesOf(expectedMembers))
        => /\ Removes(r) = <<>>
           /\ Adds(r) = <<>>
           /\ exitStatus[r] \in {"running", "exit0"}
           /\ pc[r] = "done" => EndedIn(r, "existing")

\* C5, amended: such a run issues no addMember and no removeMember, is never
\* aborted by the reconciliation, and ends with WriteDropIn called once for
\* mode existing with the expected roster's name=peerURL pairs in its order;
\* it exits 0 unless the drop-in file cannot be created, which ends it
\* fatally with nothing written.
C5_IdempotenceUnlessWriteFails ==
    \A r \in Runs :
        (/\ ListReturned(r)
         /\ NamesOf(existingMembers[r]) = NamesOf(expectedMembers)
         /\ insId[r] \in NamesOf(expectedMembers))
        => /\ Removes(r) = <<>>
           /\ Adds(r) = <<>>
           /\ ~Aborted(r)
           /\ rendered[r] # <<>> => pc[r] = "done"
           /\ pc[r] = "done" => EndedInOrWriteFailed(r, "existing")

\* C5 witness: such a run has ended with exit 0 and the whole directive in
\* the file, with two expected members listed in the other order.
C5_Witness ==
    \E r \in Runs :
        /\ EndedIn(r, "existing")
        /\ ListReturned(r)
        /\ Len(expectedMembers) = 2
        /\ Len(existingMembers[r]) = 2
        /\ NamesOf(existingMembers[r]) = NamesOf(expectedMembers)
        /\ existingMembers[r][1].Name = expectedMembers[2].Name
        /\ insId[r] \in NamesOf(expectedMembers)

\* No probe of the run was answered healthy: each met a transport error or a
\* body whose health is not "true".
NoHealthyAnswer(r) ==
    \A k \in DOMAIN calls[r] :
        IsProbe(calls[r][k]) => (calls[r][k].err \/ calls[r][k].health # "true")

\* C6 as stated: a run that has left the probing without any healthy answer
\* has probed every expected member once, in order, has issued no other call,
\* has written the directive of mode new with the full expected roster, and
\* has exited 0.
C6_NoHealthyFallback ==
    \A r \in Runs :
        (pc[r] \notin {"idle", "FindHealthyMember"} /\ NoHealthyAnswer(r))
        => /\ [k \in DOMAIN calls[r] |-> calls[r][k].url]
                = [k \in DOMAIN expectedMembers |-> HealthURL(expectedMembers[k])]
           /\ \A k \in DOMAIN calls[r] : IsProbe(calls[r][k])
           /\ EndedIn(r, "new")

\* C6, amended: a run that has left the probing without any healthy answer
\* has probed every expected member once, in order, has issued no other call,
\* and has ended with WriteDropIn called once for mode new with the full
\* expected roster in its order; it has exited 0 unless the drop-in file
\* could not be created, which ended it fatally with nothing written.
C6_NoHealthyFallbackUnlessWriteFails ==
    \A r \in Runs :
        (pc[r] \notin {"idle", "FindHealthyMember"} /\ NoHealthyAnswer(r))
        => /\ [k \in DOMAIN calls[r] |-> calls[r][k].url]
                = [k \in DOMAIN expectedMembers |-> HealthURL(expectedMembers[k])]
           /\ \A k \in DOMAIN calls[r] : IsProbe(calls[r][k])
           /\ EndedInOrWriteFailed(r, "new")

\* C6 witness: two candidates were probed, none healthy, and the run ended.
C6_Witness ==
    \E r \in Runs :
        /\ pc[r] = "done"
        /\ NoHealthyAnswer(r)
        /\ Len(calls[r]) = 2
        /\ EndedIn(r, "new")

\* C6 witness for the empty roster: nothing to probe, the run ended.
C6_WitnessEmpty ==
    \E r \in Runs : pc[r] = "done" /\ expectedMembers = <<>> /\ dropIn[r] # <<>>

\* C6 witness of the failed write: two candidates probed, none healthy, and
\* the run ended fatally in WriteDropIn with no file.
C6_WitnessWriteFails ==
    \E r \in Runs :
        /\ pc[r] = "done"
        /\ NoHealthyAnswer(r)
        /\ Len(calls[r]) = 2
        /\ exitStatus[r] = "fatal" /\ rendered[r] # <<>> /\ dropIn[r] = <<>>

\* C7: when the listMembers call met a transport error or an answer that does
\* not decode into a roster, the run issues no addMember and no removeMember
\* and ends in mode new (a failure to create the drop-in file apart).
C7_ListFailureDegrades ==
    \A r \in Runs :
        (\E k \in DOMAIN calls[r] :
            IsList(calls[r][k]) /\ (calls[r][k].err \/ ~calls[r][k].valid))
        => /\ Removes(r) = <<>>
           /\ Adds(r) = <<>>
           /\ EndedInOrWriteFailed(r, "new")

\* The part of C7 the code keeps: a transport error of listMembers ends the
\* run in mode new (a failure to create the drop-in file apart), without any
\* edit.
C7_TransportErrorDegrades ==
    \A r \in Runs :
        (\E k \in DOMAIN calls[r] : IsList(calls[r][k]) /\ calls[r][k].err)
        => /\ Removes(r) = <<>>
           /\ Adds(r) = <<>>
           /\ EndedInOrWriteFailed(r, "new")

\* C8: a removeMember call that failed is the last call of its run: no later
\* removal, no addMember; the run has ended fatally, WriteDropIn was never
\* called and nothing is written.
C8_FailFastPruning ==
    \A r \in Runs : \A k \in DOMAIN calls[r] :
        (IsRemove(calls[r][k]) /\ calls[r][k].err)
        => /\ k = Len(calls[r])
           /\ pc[r] = "done"
           /\ exitStatus[r] = "fatal"
           /\ rendered[r] = <<>> /\ dropIn[r] = <<>>

\* C8 witness: the first of two stale members could not be removed, and the
\* local node, expected, is not in the listing.
C8_Witness ==
    \E r \in Runs :
        /\ Len(Removes(r)) = 1
        /\ Removes(r)[1].err
        /\ Len(StaleMembers(existingMembers[r])) = 2
        /\ insId[r] \in NamesOf(expectedMembers) \ NamesOf(existingMembers[r])

\* C9 as stated: a run that ended fatally wrote no directive; a run writes at
\* most one; mode existing is written only when the local node is expected,
\* every stale member of the listing has a removeMember call that did not
\* fail, and the local node is in the listing or has an addMember call that
\* did not fail; and a run that degraded to mode new has exited 0.
C9_NoDirectiveOnFatal ==
    [](\A r \in Runs :
        /\ exitStatus[r] \in {"fatal", "panic"} => dropIn[r] = <<>>
        /\ exitStatus[r] = "panic" \/ (\E k \in DOMAIN calls[r] : ~IsProbe(calls[r][k]) /\ ~IsList(calls[r][k]) /\ calls[r][k].err)
           => rendered[r] = <<>>
        /\ Len(rendered[r]) <= 1 /\ Len(dropIn[r]) <= Len(rendered[r])
        /\ rendered[r] # <<>> => pc[r] = "done"
        /\ dropIn[r] # <<>> => exitStatus[r] = "exit0"
        /\ \A d \in DOMAIN rendered[r] :
              rendered[r][d].ETCD_INITIAL_CLUSTER_STATE \in {"new", "existing"}
        /\ (\E d \in DOMAIN rendered[r] : rendered[r][d].ETCD_INITIAL_CLUSTER_STATE = "existing")
           => /\ insId[r] \in NamesOf(expectedMembers)
              /\ \A j \in DOMAIN StaleMembers(existingMembers[r]) :
                    \E k \in DOMAIN calls[r] :
                        /\ IsRemove(calls[r][k])
                        /\ ~calls[r][k].err
                        /\ LastToken(calls[r][k]) = StaleMembers(existingMembers[r])[j].ID
              /\ \/ insId[r] \in NamesOf(existingMembers[r])
                 \/ \E k \in DOMAIN calls[r] :
                        IsAdd(calls[r][k]) /\ ~calls[r][k].err /\ calls[r][k].name = insId[r]
              /\ \A k \in DOMAIN calls[r] : ~calls[r][k].err \/ IsProbe(calls[r][k])
        /\ (\E d \in DOMAIN rendered[r] : rendered[r][d].ETCD_INITIAL_CLUSTER_STATE = "new")
           => exitStatus[r] = "exit0")

\* C9, amended: the same, except that a run that degraded to mode new has
\* exited 0 unless the drop-in file could not be created, which ended it
\* fatally with nothing written.
C9_NoDirectiveOnFatalUnlessWriteFails ==
    [](\A r \in Runs :
        /\ exitStatus[r] \in {"fatal", "panic"} => dropIn[r] = <<>>
        /\ exitStatus[r] = "panic" \/ (\E k \in DOMAIN calls[r] : ~IsProbe(calls[r][k]) /\ ~IsList(calls[r][k]) /\ calls[r][k].err)
           => rendered[r] = <<>>
        /\ Len(rendered[r]) <= 1 /\ Len(dropIn[r]) <= Len(rendered[r])
        /\ rendered[r] # <<>> => pc[r] = "done"
        /\ dropIn[r] # <<>> => exitStatus[r] = "exit0"
        /\ \A d \in DOMAIN rendered[r] :
              rendered[r][d].ETCD_INITIAL_CLUSTER_STATE \in {"new", "existing"}
        /\ (\E d \in DOMAIN rendered[r] : rendered[r][d].ETCD_INITIAL_CLUSTER_STATE = "existing")
           => /\ insId[r] \in NamesOf(expectedMembers)
              /\ \A j \in DOMAIN StaleMembers(existingMembers[r]) :
                    \E k \in DOMAIN calls[r] :
                        /\ IsRemove(calls[r][k])
                        /\ ~calls[r][k].err
                        /\ LastToken(calls[r][k]) = StaleMembers(existingMembers[r])[j].ID
              /\ \/ insId[r] \in NamesOf(existingMembers[r])
                 \/ \E k \in DOMAIN calls[r] :
                        IsAdd(calls[r][k]) /\ ~calls[r][k].err /\ calls[r][k].name = insId[r]
              /\ \A k \in DOMAIN calls[r] : ~calls[r][k].err \/ IsProbe(calls[r][k])
        /\ (\E d \in DOMAIN rendered[r] : rendered[r][d].ETCD_INITIAL_CLUSTER_STATE = "new")
           => exitStatus[r] = "exit0" \/ (exitStatus[r] = "fatal" /\ dropIn[r] = <<>>))

\* C9 witness: mode existing was written after a removal and the addition.
C9_Witness ==
    \E r \in Runs :
        /\ dropIn[r] # <<>>
        /\ dropIn[r][1].ETCD_INITIAL_CLUSTER_STATE = "existing"
        /\ Removes(r) # <<>>
        /\ Adds(r) # <<>>

\* C9 witness of the degraded run: the listing met a transport error, the
\* run rendered mode new and ended fatally because the file could not be
\* created.
C9_WitnessNewWriteFails ==
    \E r \in Runs :
        /\ \E k \in DOMAIN calls[r] : IsList(calls[r][k]) /\ calls[r][k].err
        /\ rendered[r] = <<Directive("new")>>
        /\ exitStatus[r] = "fatal" /\ dropIn[r] = <<>>

\* C9 witness of the fatal ends: a failed addMember after a removal.
C9_WitnessFatal ==
    \E r \in Runs :
        /\ exitStatus[r] = "fatal"
        /\ Removes(r) # <<>>
        /\ Adds(r) # <<>>

\* C10: an addMember or removeMember call answered with a status outside
\* 2xx is a failed call: it is the last call of its run, which has ended
\* fatally without writing a directive.
C10_AcceptanceMeans2xx ==
    \A r \in Runs : \A k \in DOMAIN calls[r] :
        (/\ IsRemove(calls[r][k]) \/ IsAdd(calls[r][k])
         /\ ~calls[r][k].err
         /\ ~Is2xx(calls[r][k].status))
        => /\ k = Len(calls[r])
           /\ pc[r] = "done"
           /\ exitStatus[r] = "fatal"
           /\ rendered[r] = <<>> /\ dropIn[r] = <<>>

\* The part of C10 the code keeps: a call answered 2xx is not an error; the
\* run goes on after it and is not aborted because of it.
C10_AcceptedEditsContinue ==
    \A r \in Runs : \A k \in DOMAIN calls[r] :
        (/\ IsRemove(calls[r][k]) \/ IsAdd(calls[r][k])
         /\ ~calls[r][k].err
         /\ Is2xx(calls[r][k].status))
        => ~AbortedByFatal(r) \/ k < Len(calls[r])

\* C11: every directive a run emits, in mode new as in mode existing, holds
\* exactly name=peerURL of each expected member in the expected roster's
\* order, whatever was listed, removed or added; what is in the file is that
\* directive, or the text of it cut short when the write failed; and no step
\* changes the expected roster.
C11_DirectiveIsTarget ==
    [][/\ expectedMembers' = expectedMembers
       /\ \A r \in Runs : \A d \in DOMAIN rendered'[r] :
             /\ rendered'[r][d].ETCD_INITIAL_CLUSTER = PeerList(expectedMembers)
             /\ rendered'[r][d].ETCD_INITIAL_CLUSTER_STATE \in {"new", "existing"}
       /\ \A r \in Runs : \A d \in DOMAIN dropIn'[r] :
             \E mode \in {"new", "existing"} :
                \/ dropIn'[r][d] = Directive(mode)
                \/ CutShort(dropIn'[r][d], Directive(mode))]_vars

\* C11 witness: mode existing was written after a removal and the addition,
\* from a listing whose names differ from the expected ones and whose
\* recorded peer URL of an expected member is empty.
C11_Witness ==
    \E r \in Runs :
        /\ dropIn[r] # <<>>
        /\ dropIn[r][1].ETCD_INITIAL_CLUSTER_STATE = "existing"
        /\ Len(expectedMembers) = 2
        /\ Removes(r) # <<>> /\ ~Removes(r)[1].err /\ Is2xx(Removes(r)[1].status)
        /\ Adds(r) # <<>> /\ ~Adds(r)[1].err /\ Is2xx(Adds(r)[1].status)
        /\ \E k \in DOMAIN existingMembers[r] :
              /\ existingMembers[r][k].Name \in NamesOf(expectedMembers)
              /\ existingMembers[r][k].PeerURL = EmptyString

\* C11 witness of a write cut short within the peer list: the roster is i-b,
\* i-a, the run exited 0 and the file ends after the first character of the
\* first address; no state is in it.
C11_WitnessCutInList ==
    \E r \in Runs :
        /\ exitStatus[r] = "exit0"
        /\ NamesOf(expectedMembers) = {"i-a", "i-b"} /\ expectedMembers[1].Name = "i-b"
        /\ rendered[r] = <<Directive("new")>>
        /\ dropIn[r] = <<[ETCD_INITIAL_CLUSTER |-> <<"i-b", "=", "http", "://", "1">>,
                          ETCD_INITIAL_CLUSTER_STATE |-> ""]>>

\* C11 witness of a write cut short within the state: the file holds the
\* whole peer list and the first two characters of the state.
C11_WitnessCutInState ==
    \E r \in Runs :
        /\ exitStatus[r] = "exit0"
        /\ Len(expectedMembers) = 2
        /\ rendered[r] = <<Directive("new")>>
        /\ dropIn[r] = <<[ETCD_INITIAL_CLUSTER |-> PeerList(expectedMembers),
                          ETCD_INITIAL_CLUSTER_STATE |-> "ne"]>>

\* The probes of a run, in the order issued.
Probes(r) == SelectSeq(calls[r], IsProbe)

\* A probe FindHealthyMember takes for healthy.
ProbedHealthy(c) == ~c.err /\ c.health = "true"

\* FindHealthyMember has returned in run r.
ProbingOver(r) == pc[r] \notin {"idle", "FindHealthyMember"}

\* C12: the probes go to the expected members in the roster's order, one
\* each; every probe but the last found its candidate not healthy; when the
\* probing returned a member it is the candidate probed last, found healthy,
\* and nothing after it was probed; the probing ended without a member exactly
\* when every candidate was probed and none was healthy.
C12_FirstMatchWins ==
    [](\A r \in Runs :
        LET probes == Probes(r)
            last == Len(probes) IN
        /\ last <= Len(expectedMembers)
        /\ \A k \in DOMAIN probes :
              /\ probes[k].url = HealthURL(expectedMembers[k])
              /\ calls[r][k] = probes[k]
              /\ k < last => ~ProbedHealthy(probes[k])
        /\ (ProbingOver(r) /\ healthyMember[r] # NoMember)
           => /\ probes # <<>>
              /\ ProbedHealthy(probes[last])
              /\ healthyMember[r] = expectedMembers[last]
        /\ ProbingOver(r)
           => (healthyMember[r] = NoMember
               <=> /\ last = Len(expectedMembers)
                   /\ \A k \in DOMAIN probes : ~ProbedHealthy(probes[k]))
        /\ ~ProbingOver(r) => \A k \in DOMAIN probes : ~ProbedHealthy(probes[k]))

\* C12 witness: the first of two candidates was healthy and was returned; the
\* second was never probed although the run went on.
C12_Witness ==
    \E r \in Runs :
        /\ Len(expectedMembers) = 2
        /\ Len(Probes(r)) = 1
        /\ healthyMember[r] = expectedMembers[1]
        /\ pc[r] = "done"

\* C12 witness: the first candidate was not healthy, the second was returned.
C12_WitnessSecond ==
    \E r \in Runs :
        /\ Len(Probes(r)) = 2
        /\ healthyMember[r] = expectedMembers[2]

\* C13: a candidate is taken for healthy only on an answer that arrived, has
\* a 2xx status and whose payload asserts health; on any other answer the
\* candidate is passed over and the run goes on without aborting.
C13_HealthVerdict ==
    \A r \in Runs :
        /\ (ProbingOver(r) /\ healthyMember[r] # NoMember)
           => LET last == Probes(r)[Len(Probes(r))] IN
              ~last.err /\ Is2xx(last.status) /\ last.health = "true"
        /\ \A k \in DOMAIN Probes(r) :
              (Probes(r)[k].err \/ ~Is2xx(Probes(r)[k].status) \/ Probes(r)[k].health # "true")
              => /\ k < Len(expectedMembers) /\ k = Len(Probes(r))
                    => pc[r] = "FindHealthyMember" /\ idx[r] = k + 1
                 /\ ~Aborted(r) \/ Len(calls[r]) > k

\* The part of C13 the probing keeps: an answer that did not arrive, or whose
\* payload does not assert health, passes the candidate over, and the run
\* neither aborts nor stops probing because of it.
C13_UnhealthyPassedOver ==
    \A r \in Runs : \A k \in DOMAIN Probes(r) :
        (Probes(r)[k].err \/ Probes(r)[k].health # "true")
        => /\ healthyMember[r] # expectedMembers[k]
           /\ k < Len(expectedMembers) /\ k = Len(Probes(r))
              => pc[r] = "FindHealthyMember" /\ idx[r] = k + 1
           /\ k = Len(expectedMembers) => healthyMember[r] = NoMember

\* The listing run r received is the last thing it did: ListMembers has just
\* returned its roster to main.
JustListed(r) ==
    /\ calls[r] # <<>>
    /\ IsList(calls[r][Len(calls[r])])
    /\ ~calls[r][Len(calls[r])].err

\* The entries of the roster ListMembers returned that carry no client URL
\* or no peer URL.
MidJoin(r) ==
    SelectSeq(existingMembers[r],
              LAMBDA m : m.ClientURL = EmptyString \/ m.PeerURL = EmptyString)

\* C14: ListMembers returns one entry per element of the answer's members
\* array, in the array's order, with the element's id and name; an element
\* with no client URLs or no peer URLs gives an entry with that URL empty,
\* and neither the call nor the run fails or falls back to mode new; pruning
\* and self-admission treat such an entry by its name like any other.
\* (It holds of Spec, the program with the later copy of ListMembers; with
\* the earlier copy, in SpecEitherCopy, a listed member makes the run panic
\* and no entry is returned.)
C14_MidJoinListed ==
    \A r \in Runs :
        /\ JustListed(r)
           => /\ pc[r] # "ListMembers" /\ ~AbortedByFatal(r)
              /\ \A d \in DOMAIN rendered[r] :
                    rendered[r][d].ETCD_INITIAL_CLUSTER_STATE = "existing"
              /\ Len(existingMembers[r]) = Len(resp[r].members)
              /\ \A k \in DOMAIN resp[r].members :
                    LET jm == resp[r].members[k]
                        m == existingMembers[r][k] IN
                    /\ m.ID = jm.Id /\ m.Name = jm.Name
                    /\ m.ClientURL = IF jm.ClientURLs = <<>> THEN EmptyString
                                     ELSE jm.ClientURLs[1]
                    /\ m.PeerURL = IF jm.PeerURLs = <<>> THEN EmptyString
                                   ELSE jm.PeerURLs[1]
        /\ PruneCompleted(r)
           => \A k \in DOMAIN MidJoin(r) :
                 MidJoin(r)[k].Name \notin NamesOf(expectedMembers)
                 <=> \E j \in DOMAIN RemovedIds(r) : RemovedIds(r)[j] = MidJoin(r)[k].ID
        /\ PastMaybeAddMyself(r)
           => \A k \in DOMAIN MidJoin(r) :
                 MidJoin(r)[k].Name = insId[r] => Adds(r) = <<>>

\* C14 witness: the cluster listed a stale member with neither client nor
\* peer URL after a started one; the run removed it and went on to the end.
C14_Witness ==
    \E r \in Runs :
        /\ Len(existingMembers[r]) >= 2
        /\ \E k \in DOMAIN MidJoin(r) :
              /\ MidJoin(r)[k].ClientURL = EmptyString
              /\ MidJoin(r)[k].PeerURL = EmptyString
              /\ MidJoin(r)[k].Name \notin NamesOf(expectedMembers)
              /\ MidJoin(r)[k].ID \in {RemovedIds(r)[j] : j \in DOMAIN RemovedIds(r)}
        /\ exitStatus[r] = "exit0"

\* C14 witness: the local node itself is listed mid-join, with a peer URL and
\* no client URL, and the run ends in mode existing without adding it.
C14_WitnessSelf ==
    \E r \in Runs :
        /\ \E k \in DOMAIN MidJoin(r) :
              /\ MidJoin(r)[k].Name = insId[r]
              /\ MidJoin(r)[k].ClientURL = EmptyString
              /\ MidJoin(r)[k].PeerURL # EmptyString
        /\ Adds(r) = <<>>
        /\ dropIn[r] # <<>>
        /\ dropIn[r][1].ETCD_INITIAL_CLUSTER_STATE = "existing"

\* The phases of a run, in the order the claim gives them.
Phase(c) ==
    IF IsProbe(c) THEN 1 ELSE IF IsList(c) THEN 2 ELSE IF IsRemove(c) THEN 3 ELSE 4

\* C15: the calls of a run come in the order health probes, listMembers,
\* removeMember calls, addMember; listMembers and addMember are issued at most
\* once; a listMembers comes after a probe found healthy; a removeMember or
\* addMember comes after a probe found healthy and a listMembers that
\* returned a roster; the directive is written once, after the last call.
C15_PhaseOrdering ==
    [](\A r \in Runs :
        /\ \A i, j \in DOMAIN calls[r] : i < j => Phase(calls[r][i]) <= Phase(calls[r][j])
        /\ Len(SelectSeq(calls[r], IsList)) <= 1
        /\ Len(Adds(r)) <= 1
        /\ \A k \in DOMAIN calls[r] :
              /\ ~IsProbe(calls[r][k])
                 => \E i \in 1..(k - 1) : IsProbe(calls[r][i]) /\ ProbedHealthy(calls[r][i])
              /\ IsRemove(calls[r][k]) \/ IsAdd(calls[r][k])
                 => \E j \in 1..(k - 1) : IsList(calls[r][j]) /\ ~calls[r][j].err
        /\ rendered[r] # <<>> => Len(rendered[r]) = 1 /\ pc[r] = "done"
        /\ Len(dropIn[r]) <= Len(rendered[r]))

\* C15 witness: a run went through all the phases: a probe not healthy, a
\* healthy one, the listing, a removal, the addition, the directive.
C15_Witness ==
    \E r \in Runs :
        /\ Len(Probes(r)) = 2
        /\ Len(Removes(r)) = 1
        /\ Len(Adds(r)) = 1
        /\ dropIn[r] # <<>>

\* The places of main a run goes through, in order.
PcOrder ==
    <<"idle", "FindHealthyMember", "ListMembers", "RemoveStaleMembers", "MaybeAddMyself",
      "WriteDropIn", "done">>

PcRank(p) == CHOOSE k \in DOMAIN PcOrder : PcOrder[k] = p

\* Run r stays where it is or moves forward: to a later place of main, or to
\* the next pass of the loop it is in.
Advances(r) ==
    \/ pc'[r] = pc[r] /\ idx'[r] = idx[r] /\ calls'[r] = calls[r]
    \/ PcRank(pc'[r]) > PcRank(pc[r])
    \/ pc'[r] = pc[r] /\ idx'[r] = idx[r] + 1

\* No request of run r is issued twice.
NoCallRepeated(r) ==
    \A i, j \in DOMAIN calls[r] :
        (calls[r][i].method = calls[r][j].method /\ calls[r][i].url = calls[r][j].url) => i = j

\* Run r has ended in exactly one of: exit 0 after the directive of mode
\* new, exit 0 after the directive of mode existing, fatal with no file.
OneOutcome(r) ==
    \/ /\ exitStatus[r] = "exit0"
       /\ Len(rendered[r]) = 1 /\ Len(dropIn[r]) = 1
       /\ rendered[r][1].ETCD_INITIAL_CLUSTER_STATE \in {"new", "existing"}
    \/ /\ exitStatus[r] \in {"fatal", "panic"}
       /\ dropIn[r] = <<>>

\* C16: a run ends after finitely many calls, in exactly one outcome. Every
\* step moves the run forward through main or to the next pass of a loop whose
\* passes are bounded by the roster it ranges over; a run that is not over can
\* always take a step; a run at its end has exactly one outcome; each expected
\* member is probed at most once, listMembers and addMember are issued at most
\* once, removeMember at most once per listed member, and no request is
\* issued a second time.
C16_TerminatesWithoutRetry ==
    /\ [](\A r \in Runs :
            /\ NoCallRepeated(r)
            /\ Len(Probes(r)) <= Len(expectedMembers)
            /\ Len(SelectSeq(calls[r], IsList)) <= 1
            /\ Len(Removes(r)) <= Len(existingMembers[r])
            /\ Len(Adds(r)) <= 1
            /\ pc[r] = "FindHealthyMember" => idx[r] <= Len(expectedMembers) + 1
            /\ pc[r] = "RemoveStaleMembers" => idx[r] <= Len(existingMembers[r]) + 1
            /\ pc[r] = "done" <=> exitStatus[r] # "running"
            /\ pc[r] = "done" => OneOutcome(r)
            /\ pc[r] \notin {"idle", "done"} => ENABLED Next)
    /\ [][\A r \in Runs : Advances(r)]_vars

\* C16 witness: a run ended fatal on a failed removal after an unhealthy
\* probe, a healthy probe and the listing, each issued once.
C16_Witness ==
    \E r \in Runs :
        /\ pc[r] = "done" /\ exitStatus[r] = "fatal"
        /\ Len(calls[r]) = 4
        /\ Probes(r)[1].err
        /\ Removes(r) # <<>> /\ Removes(r)[1].err

\* C16 witness: a run ended in mode new after every candidate failed its
\* probe; none was probed again.
C16_WitnessNew ==
    \E r \in Runs :
        /\ pc[r] = "done" /\ exitStatus[r] = "exit0"
        /\ Len(expectedMembers) = 2 /\ Len(calls[r]) = 2
        /\ \A k \in DOMAIN calls[r] : calls[r][k].err

\* The start of a request's url, of the length of the client URL of the
\* member run r found healthy.
Endpoint(r, c) == SubSeq(c.url, 1, Len(healthyMember[r].ClientURL))

\* C18: listMembers and every removeMember and addMember of a run are
\* addressed to the client URL of the member findHealthyMember returned, the
\* candidate of the last probe; none goes to another expected member or to a
\* member of the listed roster.
C18_SingleAdminEndpoint ==
    \A r \in Runs : \A k \in DOMAIN calls[r] :
        ~IsProbe(calls[r][k])
        => /\ healthyMember[r] # NoMember
           /\ healthyMember[r] = expectedMembers[Len(Probes(r))]
           /\ Endpoint(r, calls[r][k]) = healthyMember[r].ClientURL
           /\ calls[r][k].url \in
                 {healthyMember[r].ClientURL \o <<"/v2/members">>} \cup
                 {healthyMember[r].ClientURL \o <<"/v2/members/", ClusterId[n]>> :
                     n \in InstanceIds}

\* C18 witness: the second candidate was the healthy one; the run listed,
\* removed a started member (which has a client URL of its own) and added
\* itself, all at the second candidate's client URL.
C18_Witness ==
    \E r \in Runs :
        /\ Len(expectedMembers) = 2
        /\ healthyMember[r] = expectedMembers[2]
        /\ Removes(r) # <<>> /\ Adds(r) # <<>>
        /\ \E k \in DOMAIN existingMembers[r] :
              /\ existingMembers[r][k].ID = RemovedIds(r)[1]
              /\ existingMembers[r][k].ClientURL # EmptyString
        /\ \A k \in DOMAIN calls[r] :
              ~IsProbe(calls[r][k]) => Endpoint(r, calls[r][k]) = expectedMembers[2].ClientURL

\* Run r is the second run on its node: a first run has emitted its
\* directive and main has started again.
Rerunning(r) ==
    /\ rendered[r] # <<>>
    /\ pc[r] # "done" \/ Len(rendered[r]) = 2

\* Every answer run r received so far is the answer of a live cluster: it
\* arrived, with a 2xx status, a probe's payload asserts health and a
\* listing's payload decodes.
AnsweredAsLive(r) ==
    \A k \in DOMAIN calls[r] :
        /\ ~calls[r][k].err /\ Is2xx(calls[r][k].status)
        /\ IsProbe(calls[r][k]) => calls[r][k].health = "true"
        /\ IsList(calls[r][k]) => calls[r][k].valid

\* C17: after a run that ended in mode existing and whose every removal and
\* addition the cluster applied, the cluster's roster holds the local node and
\* no member whose name is not expected; the run that follows on the same
\* inputs, answered by the live cluster, issues no removeMember and no
\* addMember and writes the same directive again.
C17_RerunConverges ==
    \A r \in Runs :
        (Rerunning(r) /\ AnsweredAsLive(r))
        => /\ insId[r] \in NamesOf(cluster)
           /\ NamesOf(cluster) \subseteq NamesOf(expectedMembers)
           /\ Removes(r) = <<>>
           /\ Adds(r) = <<>>
           /\ Len(rendered[r]) = 2 => rendered[r][2] = rendered[r][1]

\* The part of C17 that holds: when the listing the second run receives
\* holds the local node and only expected names, that run, answered by the
\* live cluster, issues no removeMember and no addMember, leaves the cluster
\* as it is and writes the same directive again.
C17_RerunOnConvergedCluster ==
    \A r \in Runs :
        (/\ Rerunning(r) /\ AnsweredAsLive(r) /\ ListReturned(r)
         /\ insId[r] \in NamesOf(existingMembers[r])
         /\ NamesOf(existingMembers[r]) \subseteq NamesOf(expectedMembers))
        => /\ Removes(r) = <<>>
           /\ Adds(r) = <<>>
           /\ NamesOf(cluster) = NamesOf(existingMembers[r])
           /\ pc[r] = "done" => Len(rendered[r]) = 2 /\ rendered[r][2] = rendered[r][1]

\* A second run came to its end on a converged cluster after a first run
\* that had removed a member and added the node.
C17_WitnessConverged ==
    \E r \in Runs :
        /\ Rerunning(r) /\ AnsweredAsLive(r)
        /\ Len(rendered[r]) = 2 /\ exitStatus[r] = "exit0"
        /\ Len(cluster) = 2
        /\ cluster[2].Name = insId[r] /\ cluster[2].ClientURLs = <<>>

\* Both runs have ended in mode existing.
BothExisting ==
    \A r \in Runs :
        /\ pc[r] = "done" /\ exitStatus[r] = "exit0" /\ rendered[r] # <<>>
        /\ rendered[r][1].ETCD_INITIAL_CLUSTER_STATE = "existing"
        /\ dropIn[r] = rendered[r]

\* C19: when two nodes of one expected roster run at the same time against
\* one cluster, no run issues a removeMember for a member with an expected
\* name (the other node included), each run's addMember carries its own node
\* only, and once both runs have ended in mode existing the cluster's roster
\* holds both nodes.
C19_ConcurrentRuns ==
    /\ \A r \in Runs :
          /\ \A k \in DOMAIN RemovedIds(r) :
                \A n \in NamesOf(expectedMembers) : RemovedIds(r)[k] # ClusterId[n]
          /\ \A k \in DOMAIN Adds(r) :
                /\ Adds(r)[k].name = insId[r]
                /\ Adds(r)[k].peerURLs = <<ExpectedNamed(insId[r]).PeerURL>>
    /\ BothExisting => \A r \in Runs : insId[r] \in NamesOf(cluster)

\* The part of C19 that holds: no run removes an expected member, each run
\* adds only its own node, and once both runs have ended in mode existing the
\* cluster holds every node whose addition it answered with a 2xx status or
\* that it listed.
C19_ConcurrentRunsApplied ==
    /\ \A r \in Runs :
          /\ \A k \in DOMAIN RemovedIds(r) :
                \A n \in NamesOf(expectedMembers) : RemovedIds(r)[k] # ClusterId[n]
          /\ \A k \in DOMAIN Adds(r) :
                /\ Adds(r)[k].name = insId[r]
                /\ Adds(r)[k].peerURLs = <<ExpectedNamed(insId[r]).PeerURL>>
    /\ BothExisting
       => \A r \in Runs :
             (\A k \in DOMAIN Adds(r) : Is2xx(Adds(r)[k].status))
             => insId[r] \in NamesOf(cluster)

\* Both runs listed a cluster holding neither node and a stale member, both
\* removed the stale member and added their own node, and both ended in mode
\* existing with both nodes in the cluster.
C19_WitnessBothJoined ==
    /\ BothExisting
    /\ \A r \in Runs :
          /\ Removes(r) # <<>>
          /\ Adds(r) # <<>> /\ Is2xx(Adds(r)[1].status)
          /\ insId[r] \in NamesOf(cluster)

====
